---- MODULE Spec2Model ----
(***************************************************************************)
(* License bot (src/bot.py and src/telegram-bot/bot.py): command handlers  *)
(* that fetch licenses.json from a remote content store, mutate the list   *)
(* in memory and PUT the whole document back with the revision (sha) they  *)
(* fetched.  A handler whose arguments pass its checks takes two steps,    *)
(* split at its two remote calls: get_licenses(), then the rest (find,     *)
(* mutate, save_licenses(), reply).  get_licenses() takes no argument of   *)
(* the command, so the command's arguments are drawn in the second step,   *)
(* where the handler's checks on them are evaluated too.                   *)
(***************************************************************************)
EXTENDS Integers, Sequences, FiniteSets, TLC

VARIABLES
    storeContent,   \* the remote file's content (base64 text), <<>> while no file exists
    storeSha,       \* the remote file's revision, NoneSha while no file exists
    today,          \* date.today(), as a day number
    ticks,          \* how many times the clock has advanced
    pc,             \* per process: "idle", or "fetched" after get_licenses()
    fetched,        \* per process: how its get_licenses() ended
    licenses,       \* per process: the handler's local `licenses`
    sha,            \* per process: the handler's local `sha`
    last            \* the reply just sent by a handler, with what led to it

vars == <<storeContent, storeSha, today, ticks, pc, fetched, licenses, sha, last>>

(***************************************************************************)
(* Bounds of the model.                                                    *)
(***************************************************************************)
MaxRev == 3         \* accepted writes
MaxTicks == 1       \* clock advances

\* the bot processes sharing the remote file; a process runs one handler at a
\* time (the handlers never await between get_licenses and save_licenses)
Procs == {"p1", "p2"}

\* the file each process runs: src/bot.py or src/telegram-bot/bot.py
Variant(p) == IF p = "p1" THEN "bot" ELSE "tg"

\* GITHUB_TOKEN is configured
GITHUB_TOKEN == TRUE

\* the days between two looks at the clock: a record activated for one month
\* has then lapsed, one activated for two months has 5 days left
TickDays == {55}

(***************************************************************************)
(* Text.  A string the code inspects is a sequence of one-character        *)
(* strings; a string it only passes along is a TLA+ string.                *)
(***************************************************************************)
Digits == {"0", "1", "2", "3", "4", "5", "6", "7", "8", "9"}

Rep(c, n) == [i \in 1..n |-> c]

\* re.sub(r"[^\d]", "", value)
normalize_cpf_cnpj(value) == SelectSeq(value, LAMBDA c : c \in Digits)

DigitVal(c) ==
    CASE c = "0" -> 0 [] c = "1" -> 1 [] c = "2" -> 2 [] c = "3" -> 3
      [] c = "4" -> 4 [] c = "5" -> 5 [] c = "6" -> 6 [] c = "7" -> 7
      [] c = "8" -> 8 [] c = "9" -> 9

RECURSIVE DigitsVal(_)
DigitsVal(s) ==
    IF s = <<>> THEN 0
    ELSE 10 * DigitsVal(SubSeq(s, 1, Len(s) - 1)) + DigitVal(s[Len(s)])

AllDigits(s) == s # <<>> /\ \A i \in 1..Len(s) : s[i] \in Digits

\* int(text): an optional sign and decimal digits; anything else raises ValueError
int_ok(s) ==
    \/ AllDigits(s)
    \/ Len(s) > 1 /\ s[1] \in {"-", "+"} /\ AllDigits(Tail(s))

int(s) ==
    IF s[1] = "-" THEN 0 - DigitsVal(Tail(s))
    ELSE IF s[1] = "+" THEN DigitsVal(Tail(s))
    ELSE DigitsVal(s)

\* str.strip() over the whitespace the model writes (" ")
RECURSIVE lstrip(_)
lstrip(s) == IF s # <<>> /\ s[1] = " " THEN lstrip(Tail(s)) ELSE s

RECURSIVE rstrip(_)
rstrip(s) ==
    IF s # <<>> /\ s[Len(s)] = " " THEN rstrip(SubSeq(s, 1, Len(s) - 1)) ELSE s

strip(s) == rstrip(lstrip(s))

\* cpf[-4:]
Last4(s) == IF Len(s) <= 4 THEN s ELSE SubSeq(s, Len(s) - 3, Len(s))

(***************************************************************************)
(* Dates.  A date is a day number; its ISO text is the tagged day number,  *)
(* and any other text makes date.fromisoformat raise ValueError.           *)
(***************************************************************************)
DaysPerMonth == 30

date_isoformat(d) == <<"date", d>>
fromisoformat_ok(s) == Len(s) = 2 /\ s[1] = "date"
date_fromisoformat(s) == s[2]
datetime_isoformat(d) == <<"datetime", d>>

\* date.today() + timedelta(days=30 * meses)
add_months(base, meses) == base + DaysPerMonth * meses

(***************************************************************************)
(* generate_license_key: four groups of four symbols of `chars`, joined by *)
(* "-".  pick[i] is the index secrets.choice draws for the i-th symbol.    *)
(***************************************************************************)
\* an alphabet of all the capital letters and digits
chars_alnum ==
    <<"A", "B", "C", "D", "E", "F", "G", "H", "I", "J", "K", "L", "M", "N",
      "O", "P", "Q", "R", "S", "T", "U", "V", "W", "X", "Y", "Z",
      "0", "1", "2", "3", "4", "5", "6", "7", "8", "9">>

chars == <<"A", "B", "C", "D", "E", "F", "G", "H", "J", "K", "M", "N",
           "P", "Q", "R", "S", "T", "U", "V", "W", "X", "Y", "Z",
           "2", "3", "4", "5", "6", "7", "8", "9">>

KeyPart(pick, g) == [i \in 1..4 |-> chars[pick[4 * (g - 1) + i]]]

generate_license_key(pick) ==
    KeyPart(pick, 1) \o <<"-">> \o KeyPart(pick, 2) \o <<"-">>
        \o KeyPart(pick, 3) \o <<"-">> \o KeyPart(pick, 4)

\* the draws the model explores for the key of a new record: all sixteen
\* symbols the first of chars
ActivationPicks == {[i \in 1..16 |-> 1]}

\* the draws the model explores for a renewal: that draw again, or all
\* sixteen symbols the last of chars
Picks == ActivationPicks \cup {[i \in 1..16 |-> Len(chars)]}

(***************************************************************************)
(* Records.                                                                *)
(***************************************************************************)
NoneSha == 0

\* stands for "no record" where a record-typed value is needed
NoLic == [key |-> <<>>, cpf_cnpj |-> <<>>, customer |-> <<>>, email |-> "",
          plan |-> "", status |-> "", expires |-> <<>>, max_users |-> 0,
          created_at |-> <<>>]

\* find_license_by_cpf reading a key the records do not have: it finds nothing
find_license_wrong_field(cpf, lics) == 0

\* find_license_by_cpf returning the first record, whatever its cpf_cnpj
find_license_first(cpf, lics) == IF lics = <<>> THEN 0 ELSE 1

\* the index of the first record whose normalized cpf_cnpj matches, 0 for None
find_license_by_cpf(cpf, lics) ==
    LET cpf_clean == normalize_cpf_cnpj(cpf)
        hits == {i \in 1..Len(lics) :
                    normalize_cpf_cnpj(lics[i].cpf_cnpj) = cpf_clean}
    IN  IF hits = {} THEN 0 ELSE CHOOSE i \in hits : \A j \in hits : i <= j

(***************************************************************************)
(* The remote store (GitHub contents API) and the two functions that talk  *)
(* to it.                                                                  *)
(***************************************************************************)
json_dumps(data) == <<"json", data>>
json_ok(text) == Len(text) = 2 /\ text[1] = "json"
json_loads(text) == text[2]
b64encode(text) == <<"b64", text>>
b64_ok(text) == Len(text) = 2 /\ text[1] = "b64"
b64decode(text) == text[2]

\* the answers a GET of licenses.json can get
GetResponses ==
    {[status |-> 0, content |-> <<>>, sha |-> NoneSha],        \* no answer (network)
     [status |-> 401, content |-> <<>>, sha |-> NoneSha]}      \* bad credentials
    \cup
    {IF storeSha = NoneSha
        THEN [status |-> 404, content |-> <<>>, sha |-> NoneSha]
        ELSE [status |-> 200, content |-> storeContent, sha |-> storeSha]}

\* get_licenses(): (licenses, sha), and ([], None) on any failure
get_licenses(token, resp) ==
    IF ~token THEN <<<<>>, NoneSha>>
    ELSE IF resp.status # 200 THEN <<<<>>, NoneSha>>
    ELSE IF ~b64_ok(resp.content) THEN <<<<>>, NoneSha>>
    ELSE IF ~json_ok(b64decode(resp.content)) THEN <<<<>>, NoneSha>>
    ELSE <<json_loads(b64decode(resp.content)).licenses, resp.sha>>

\* how get_licenses ended: "ok", or why it returned ([], None)
fetch_outcome(token, resp) ==
    IF ~token THEN "no_token"
    ELSE IF resp.status = 404 THEN "missing"
    ELSE IF resp.status # 200 THEN "failed"
    ELSE IF ~b64_ok(resp.content) THEN "failed"
    ELSE IF ~json_ok(b64decode(resp.content)) THEN "failed"
    ELSE "ok"

\* save_licenses serialising all but the last record
save_payload_short(lics) ==
    IF lics = <<>> THEN lics ELSE SubSeq(lics, 1, Len(lics) - 1)

\* the licenses save_licenses serialises
save_payload(lics) == lics

\* save_licenses sending the revision the file has now, not the caller's
save_body_current_sha(lics, s, message, now) ==
    LET data == [licenses |-> save_payload(lics),
                 updated_at |-> datetime_isoformat(now)]
        content_b64 == b64encode(json_dumps(data))
    IN  IF storeSha # NoneSha
            THEN [message |-> message, content |-> content_b64, sha |-> storeSha]
            ELSE [message |-> message, content |-> content_b64]

\* the PUT body save_licenses builds
save_body(lics, s, message, now) ==
    LET data == [licenses |-> save_payload(lics),
                 updated_at |-> datetime_isoformat(now)]
        content_b64 == b64encode(json_dumps(data))
    IN  IF s # NoneSha
            THEN [message |-> message, content |-> content_b64, sha |-> s]
            ELSE [message |-> message, content |-> content_b64]

\* the store's compare-and-swap: the status a PUT that reaches the store gets
StorePutStatus(body) ==
    IF storeSha = NoneSha
        THEN IF "sha" \in DOMAIN body THEN 409 ELSE 201
        ELSE IF "sha" \notin DOMAIN body THEN 422
             ELSE IF body.sha = storeSha THEN 200 ELSE 409

\* save_licenses returning True also from its except clause
save_result_swallow(status) == TRUE

\* save_licenses' result for a PUT answered with `status` (0: no answer); an
\* answer of 400 or more, or none, raises in urlopen and gives False
save_result(status) == status \in {200, 201}

\* what happened to a PUT answered with `status` (0: no answer): accepted,
\* rejected by the store, or the store not reached; save_licenses catches
\* all but the first in one except clause
put_outcome(status) ==
    IF status \in {200, 201} THEN "ok"
    ELSE IF status = 0 THEN "unavailable" ELSE "conflict"

\* the reply a handler sends after save_licenses: one text for True, one for
\* False, whatever made it False
save_reply(status) == IF save_result(status) THEN "ok" ELSE "save_error"

\* the documents the store holds
StoredLicenses ==
    IF storeSha = NoneSha THEN <<>>
    ELSE json_loads(b64decode(storeContent)).licenses

(***************************************************************************)
(* The handlers' mutations of the fetched list.                            *)
(***************************************************************************)
PLANOS == [basico |-> [nome |-> "Basico", usuarios |-> 1],
           profissional |-> [nome |-> "Profissional", usuarios |-> 3],
           empresarial |-> [nome |-> "Empresarial", usuarios |-> 10]]

\* str.lower() over the plan words the model sends
str_lower(s) ==
    CASE s = "BASICO" -> "basico"
      [] s = "Empresarial" -> "empresarial"
      [] OTHER -> s

\* ativar: nome
ativar_nome(args, cpf) ==
    IF Len(args) > 2 THEN SubSeq(args, 3, Len(args))
    ELSE <<"Cliente">> \o Last4(cpf)

\* nova_licenca taking meses for a number of days
nova_licenca_days(cpf, nome, meses, key, now) ==
    [key |-> key, cpf_cnpj |-> cpf, customer |-> nome, email |-> "",
     plan |-> "profissional", status |-> "active",
     expires |-> date_isoformat(now + meses), max_users |-> 3,
     created_at |-> datetime_isoformat(now)]

\* ativar: nova_licenca
nova_licenca(cpf, nome, meses, key, now) ==
    [key |-> key, cpf_cnpj |-> cpf, customer |-> nome, email |-> "",
     plan |-> "profissional", status |-> "active",
     expires |-> date_isoformat(add_months(now, meses)), max_users |-> 3,
     created_at |-> datetime_isoformat(now)]

\* renovar: current_expires (today when the stored text is no date)
current_expires(lic, now) ==
    IF fromisoformat_ok(lic.expires) THEN date_fromisoformat(lic.expires) ELSE now

\* renovar (src/bot.py): is_key_empty
is_key_empty(current_key) == current_key = <<>> \/ strip(current_key) = <<>>

\* is_expired with the comparison turned round
is_expired_flipped(expires, now) == expires >= now

\* renovar (src/bot.py): is_expired
is_expired(expires, now) == expires <= now

\* should_start_from_zero without is_cancelled
should_start_no_cancelled(lic, now) ==
    \/ is_key_empty(lic.key)
    \/ is_expired(current_expires(lic, now), now)

\* renovar (src/bot.py): should_start_from_zero
should_start_from_zero(lic, now) ==
    \/ lic.status = "cancelled"
    \/ is_key_empty(lic.key)
    \/ is_expired(current_expires(lic, now), now)

\* renovar (src/bot.py): the record after the renewal
renovar_bot(lic, meses, key, now) ==
    IF should_start_from_zero(lic, now)
        THEN [lic EXCEPT !.key = key,
                         !.expires = date_isoformat(add_months(now, meses)),
                         !.status = "active"]
        ELSE [lic EXCEPT !.expires =
                             date_isoformat(add_months(current_expires(lic, now), meses)),
                         !.status = "active"]

Max(a, b) == IF a >= b THEN a ELSE b

\* renovar stamping the record anew
renovar_tg_restamps(lic, meses, now) ==
    [lic EXCEPT !.expires =
                    date_isoformat(add_months(Max(current_expires(lic, now), now), meses)),
                !.status = "active",
                !.created_at = datetime_isoformat(now)]

\* renovar (src/telegram-bot/bot.py): the record after the renewal
renovar_tg(lic, meses, now) ==
    [lic EXCEPT !.expires =
                    date_isoformat(add_months(Max(current_expires(lic, now), now), meses)),
                !.status = "active"]

\* cancelar (src/bot.py) leaving expires and the key as they were
cancelar_bot_status_only(lic, now) == [lic EXCEPT !.status = "cancelled"]

\* cancelar (src/bot.py)
cancelar_bot(lic, now) ==
    [lic EXCEPT !.status = "cancelled", !.expires = date_isoformat(now), !.key = <<>>]

\* cancelar storing the status the listings show for a lapsed record
cancelar_tg_expired(lic) == [lic EXCEPT !.status = "expired"]

\* cancelar (src/telegram-bot/bot.py)
cancelar_tg(lic) == [lic EXCEPT !.status = "cancelled"]

\* suspender clearing the key as cancelar does
suspender_lic_clears(lic) == [lic EXCEPT !.status = "suspended", !.key = <<>>]

\* suspender (src/telegram-bot/bot.py)
suspender_lic(lic) == [lic EXCEPT !.status = "suspended"]

\* plano changing the plan and not the number of users
plano_lic_keeps_users(lic, tipo) == [lic EXCEPT !.plan = tipo]

\* plano (src/telegram-bot/bot.py)
plano_lic(lic, tipo) ==
    [lic EXCEPT !.plan = tipo, !.max_users = PLANOS[tipo].usuarios]

\* a handler deleting the record it was to change
set_record_removes(lics, i, new) ==
    SubSeq(lics, 1, i - 1) \o SubSeq(lics, i + 1, Len(lics))

\* a handler putting the record it changed at the end of the list
set_record_moves(lics, i, new) ==
    SubSeq(lics, 1, i - 1) \o SubSeq(lics, i + 1, Len(lics)) \o <<new>>

\* lic["..."] = ...: the handlers assign to the record found in `licenses`,
\* which changes that element of the list and nothing else of it
set_record(lics, i, new) == [lics EXCEPT ![i] = new]

(***************************************************************************)
(* The reply of a handler, recorded with what led to it.                   *)
(***************************************************************************)
Event(p, op, args, reply, put, i, sent) ==
    [op |-> op,                     \* the handler
     v |-> Variant(p),              \* the file it is from
     args |-> args,                 \* context.args
     reply |-> reply,               \* which reply_text it ended with
     fetched |-> fetched[p],        \* how its get_licenses() ended, "" if not called
     put |-> put,                   \* how its PUT ended, "none" if not sent
     sha |-> sha[p],                \* the sha its get_licenses() returned
     got |-> licenses[p],           \* the list its get_licenses() returned
     idx |-> i,                     \* the index find_license_by_cpf found, 0 for None
     sent |-> sent,                 \* the list it passed to save_licenses
     shown |-> <<>>,                \* the records its reply lists, in the reply's order
     prev |-> StoredLicenses,       \* the stored list before the step
     prevSha |-> storeSha,          \* the store's revision before the step
     day |-> today]

\* no reply is waiting to be read
NoEvent ==
    [op |-> "", v |-> "", args |-> <<>>, reply |-> "", fetched |-> "",
     put |-> "none", sha |-> NoneSha, got |-> <<>>, idx |-> 0, sent |-> <<>>,
     shown |-> <<>>, prev |-> <<>>, prevSha |-> NoneSha, day |-> 0]

Init ==
    /\ storeContent = <<>>
    /\ storeSha = NoneSha
    /\ today = 0
    /\ ticks = 0
    /\ pc = [p \in Procs |-> "idle"]
    /\ fetched = [p \in Procs |-> ""]
    /\ licenses = [p \in Procs |-> <<>>]
    /\ sha = [p \in Procs |-> NoneSha]
    /\ last = NoEvent

\* midnight passes
Tick ==
    /\ last = NoEvent
    /\ ticks < MaxTicks
    /\ \E d \in TickDays : today' = today + d
    /\ ticks' = ticks + 1
    /\ UNCHANGED <<storeContent, storeSha, pc, fetched, licenses, sha, last>>

\* the operator reads the reply.  Replies are read one at a time: the other
\* steps wait for it, so that `last` always describes the step just taken.
reply_delivered ==
    /\ last # NoEvent
    /\ last' = NoEvent
    /\ UNCHANGED <<storeContent, storeSha, today, ticks, pc, fetched, licenses, sha>>

\* licenses, sha = get_licenses(), in a handler whose arguments passed its checks
fetch(p) ==
    /\ last = NoEvent
    /\ pc[p] = "idle"
    /\ \E resp \in GetResponses :
        /\ pc' = [pc EXCEPT ![p] = "fetched"]
        /\ fetched' = [fetched EXCEPT ![p] = fetch_outcome(GITHUB_TOKEN, resp)]
        /\ licenses' = [licenses EXCEPT ![p] = get_licenses(GITHUB_TOKEN, resp)[1]]
        /\ sha' = [sha EXCEPT ![p] = get_licenses(GITHUB_TOKEN, resp)[2]]
    /\ UNCHANGED <<storeContent, storeSha, today, ticks, last>>

\* a handler that goes round again with the list it has
Return_again(p) == UNCHANGED <<pc, fetched, licenses, sha>>

\* the handler returns: its locals go away
Return(p) ==
    /\ pc' = [pc EXCEPT ![p] = "idle"]
    /\ fetched' = [fetched EXCEPT ![p] = ""]
    /\ licenses' = [licenses EXCEPT ![p] = <<>>]
    /\ sha' = [sha EXCEPT ![p] = NoneSha]

\* an early return on the arguments: before get_licenses()
ReplyEarly(p, op, args, reply) ==
    /\ pc[p] = "idle"
    /\ last' = Event(p, op, args, reply, "none", 0, <<>>)
    /\ UNCHANGED <<storeContent, storeSha, today, ticks, pc, fetched, licenses, sha>>

\* a reply that ends the handler after get_licenses() and before any save
ReplyNoSave(p, op, args, reply, i) ==
    /\ last' = Event(p, op, args, reply, "none", i, <<>>)
    /\ Return(p)
    /\ UNCHANGED <<storeContent, storeSha, today, ticks>>

\* a reply that lists records and ends the handler, with no save
ReplyShow(p, op, args, reply, i, shown) ==
    /\ last' = [Event(p, op, args, reply, "none", i, <<>>) EXCEPT !.shown = shown]
    /\ Return(p)
    /\ UNCHANGED <<storeContent, storeSha, today, ticks>>

\* a handler reading the sha again right before it saves
handler_sha_reread(p) == storeSha

\* the sha the handler passes to save_licenses: the one its get_licenses returned
handler_sha(p) == sha[p]

\* save_licenses(lics, sha, message) and the reply that follows it; `reached`
\* is whether the PUT gets the store's answer
Save(p, op, args, lics, message, i) ==
    LET body == save_body(lics, handler_sha(p), message, today)
    IN  IF ~GITHUB_TOKEN
        THEN \* no token: False without a request
             /\ last' = Event(p, op, args, "save_error", "none", i, lics)
             /\ Return(p)
             /\ UNCHANGED <<storeContent, storeSha, today, ticks>>
        ELSE \E reached \in BOOLEAN :
             LET status == IF reached THEN StorePutStatus(body) ELSE 0
                 put == put_outcome(status)
             IN  /\ status \in {200, 201} => storeSha < MaxRev
                 /\ IF status \in {200, 201}
                       THEN /\ storeContent' = body.content
                            /\ storeSha' = storeSha + 1
                       ELSE UNCHANGED <<storeContent, storeSha>>
                 /\ last' = Event(p, op, args,
                                  save_reply(status),
                                  put, i, lics)
                 /\ Return(p)
                 /\ UNCHANGED <<today, ticks>>

(***************************************************************************)
(* The commands the operators send.                                        *)
(***************************************************************************)
CpfPlain == Rep("1", 11)
CpfFormatted ==
    <<"1", "1", "1", ".", "1", "1", "1", ".", "1", "1", "1", "-", "1", "1">>
CnpjPlain == Rep("2", 14)
ShortId == <<"1", "2", "3">>

\* the argument lists the operators send: valid ones, and ones that fail a
\* handler's check on the identifier, the months or the plan
AtivarArgs ==
    {<<CpfFormatted, <<"1">>>>, <<CnpjPlain, <<"2">>, "Empresa", "XYZ">>,
     <<ShortId, <<"1">>>>, <<CpfPlain, <<"0">>>>, <<CpfPlain, <<"2", "5">>>>,
     <<CpfPlain, <<"x">>>>}

RenovarArgs ==
    {<<CpfPlain, <<"1">>>>, <<CpfPlain, <<"-", "1">>>>, <<CpfPlain, <<"x">>>>}

CancelarArgs == {<<CpfFormatted>>}

SuspenderArgs == {<<CpfPlain>>}

PlanoArgs == {<<"Empresarial", CpfPlain>>, <<"premium", CpfPlain>>}

\* a handler whose arguments fail a check replies at once; one whose arguments
\* pass has called get_licenses() and goes on with `body`
Handler(p, op, args, check, body) ==
    IF check # ""
        THEN ReplyEarly(p, op, args, check)
        ELSE /\ pc[p] = "fetched"
             /\ body

(***************************************************************************)
(* /ativar CPF MESES [NOME]                                                *)
(***************************************************************************)
\* ativar without its check of the range of meses
ativar_check_no_range(args) ==
    IF Len(args) < 2 THEN "usage"
    ELSE IF Len(normalize_cpf_cnpj(args[1])) \notin {11, 14} THEN "invalid_cpf"
    ELSE IF ~int_ok(args[2]) THEN "invalid_months"
    ELSE ""

ativar_check(args) ==
    IF Len(args) < 2 THEN "usage"
    ELSE IF Len(normalize_cpf_cnpj(args[1])) \notin {11, 14} THEN "invalid_cpf"
    ELSE IF ~int_ok(args[2]) THEN "invalid_months"
    ELSE IF int(args[2]) < 1 \/ int(args[2]) > 24 THEN "invalid_months"
    ELSE ""

\* ativar refusing only an identifier whose record is active
ativar_existing_active(lics, existing) ==
    existing # 0 /\ lics[existing].status = "active"

\* ativar: `if existing:`
ativar_existing(lics, existing) == existing # 0

ativar_body(p, args) ==
    LET cpf == normalize_cpf_cnpj(args[1])
        meses == int(args[2])
        nome == ativar_nome(args, cpf)
        existing == find_license_by_cpf(cpf, licenses[p])
    IN  IF ativar_existing(licenses[p], existing)
        THEN ReplyNoSave(p, "ativar", args, "duplicate", existing)
        ELSE \E pick \in ActivationPicks :
             Save(p, "ativar", args,
                  Append(licenses[p],
                         nova_licenca(cpf, nome, meses, generate_license_key(pick),
                                      today)),
                  <<"Ativar", nome>>, 0)

ativar(p) ==
    /\ last = NoEvent
    /\ \E args \in AtivarArgs :
        Handler(p, "ativar", args, ativar_check(args), ativar_body(p, args))

(***************************************************************************)
(* /renovar CPF MESES                                                      *)
(***************************************************************************)
renovar_check(args) ==
    IF Len(args) < 2 THEN "usage"
    ELSE IF ~int_ok(args[2]) THEN "invalid_months"
    ELSE ""

renovar_body(p, args) ==
    LET cpf == normalize_cpf_cnpj(args[1])
        meses == int(args[2])
        i == find_license_by_cpf(cpf, licenses[p])
    IN  IF i = 0
        THEN ReplyNoSave(p, "renovar", args, "not_found", 0)
        ELSE LET lic == licenses[p][i]
                 \* the record after the renewal, one for each key that can be drawn
                 news == IF Variant(p) = "bot"
                            THEN {renovar_bot(lic, meses, generate_license_key(pick),
                                              today) : pick \in Picks}
                            ELSE {renovar_tg(lic, meses, today)}
             IN  \E new \in news :
                     Save(p, "renovar", args, set_record(licenses[p], i, new),
                          <<"Renovar", lic.customer>>, i)

renovar(p) ==
    /\ last = NoEvent
    /\ \E args \in RenovarArgs :
        Handler(p, "renovar", args, renovar_check(args), renovar_body(p, args))

(***************************************************************************)
(* /cancelar CPF                                                           *)
(***************************************************************************)
cpf_check(args) == IF Len(args) < 1 THEN "usage" ELSE ""

cancelar_body(p, args) ==
    LET cpf == normalize_cpf_cnpj(args[1])
        i == find_license_by_cpf(cpf, licenses[p])
    IN  IF i = 0
        THEN ReplyNoSave(p, "cancelar", args, "not_found", 0)
        ELSE LET lic == licenses[p][i]
                 new == IF Variant(p) = "bot" THEN cancelar_bot(lic, today)
                        ELSE cancelar_tg(lic)
             IN  Save(p, "cancelar", args, set_record(licenses[p], i, new),
                      <<"Cancelar", lic.customer>>, i)

cancelar(p) ==
    /\ last = NoEvent
    /\ \E args \in CancelarArgs :
        Handler(p, "cancelar", args, cpf_check(args), cancelar_body(p, args))

(***************************************************************************)
(* /suspender CPF (src/telegram-bot/bot.py only)                           *)
(***************************************************************************)
suspender_body(p, args) ==
    LET cpf == normalize_cpf_cnpj(args[1])
        i == find_license_by_cpf(cpf, licenses[p])
    IN  IF i = 0
        THEN ReplyNoSave(p, "suspender", args, "not_found", 0)
        ELSE LET lic == licenses[p][i]
             IN  Save(p, "suspender", args,
                      set_record(licenses[p], i, suspender_lic(lic)),
                      <<"Suspender", lic.customer>>, i)

suspender(p) ==
    /\ last = NoEvent
    /\ Variant(p) = "tg"
    /\ \E args \in SuspenderArgs :
        Handler(p, "suspender", args, cpf_check(args), suspender_body(p, args))

(***************************************************************************)
(* /plano TIPO CPF (src/telegram-bot/bot.py only)                          *)
(***************************************************************************)
plano_check(args) ==
    IF Len(args) < 2 THEN "usage"
    ELSE IF str_lower(args[1]) \notin DOMAIN PLANOS THEN "invalid_plan"
    ELSE ""

plano_body(p, args) ==
    LET tipo == str_lower(args[1])
        cpf == normalize_cpf_cnpj(args[2])
        i == find_license_by_cpf(cpf, licenses[p])
    IN  IF i = 0
        THEN ReplyNoSave(p, "plano", args, "not_found", 0)
        ELSE LET lic == licenses[p][i]
             IN  Save(p, "plano", args,
                      set_record(licenses[p], i, plano_lic(lic, tipo)),
                      <<"Alterar plano", lic.customer, tipo>>, i)

plano(p) ==
    /\ last = NoEvent
    /\ Variant(p) = "tg"
    /\ \E args \in PlanoArgs :
        Handler(p, "plano", args, plano_check(args), plano_body(p, args))

(***************************************************************************)
(* /status CPF, /listar, /vencendo: the handlers that only read            *)
(***************************************************************************)
StatusArgs == {<<CpfFormatted>>, <<CnpjPlain>>}

status_cmd_body(p, args) ==
    LET cpf == normalize_cpf_cnpj(args[1])
        i == find_license_by_cpf(cpf, licenses[p])
    IN  IF i = 0
        THEN ReplyNoSave(p, "status", args, "not_found", 0)
        ELSE ReplyShow(p, "status", args, "status", i, <<licenses[p][i]>>)

status_cmd(p) ==
    /\ last = NoEvent
    /\ \E args \in StatusArgs :
        Handler(p, "status", args, cpf_check(args), status_cmd_body(p, args))

\* a and b are pairs of numbers: a sorts before b
key_lt(a, b) == a[1] < b[1] \/ (a[1] = b[1] /\ a[2] < b[2])

\* list.sort(key=...): `items` are [key, item] records; ascending by key,
\* items of equal keys in the order they had (the sort is stable)
RECURSIVE list_sort(_)
list_sort(items) ==
    IF items = <<>> THEN <<>>
    ELSE LET h == Head(items)
             rest == list_sort(Tail(items))
             k == Cardinality({j \in 1..Len(rest) : key_lt(rest[j].key, h.key)})
         IN  SubSeq(rest, 1, k) \o <<h>> \o SubSeq(rest, k + 1, Len(rest))

\* the items of a sorted list of [key, item] records
items_of(sorted) == [j \in 1..Len(sorted) |-> sorted[j].item]

\* listar (src/telegram-bot/bot.py): status_order.get(status, 9)
status_order(status) ==
    CASE status = "active" -> 0
      [] status = "suspended" -> 1
      [] status = "expired" -> 2
      [] status = "cancelled" -> 3
      [] OTHER -> 9

\* listar (src/telegram-bot/bot.py): sort_key; the `expires` texts are ISO
\* dates, which compare as their dates do
sort_key(lic) == <<status_order(lic.status), lic.expires[2]>>

\* the records /listar shows: src/bot.py the first 15 in stored order,
\* src/telegram-bot/bot.py all of them, sorted in place
listar_shown(v, lics) ==
    IF v = "bot"
        THEN SubSeq(lics, 1, IF Len(lics) < 15 THEN Len(lics) ELSE 15)
        ELSE items_of(list_sort([j \in 1..Len(lics) |->
                                    [key |-> sort_key(lics[j]), item |-> lics[j]]]))

\* listar writing back the list it sorted
listar_body_saves(p) ==
    Save(p, "listar", <<>>, listar_shown(Variant(p), licenses[p]), <<"Listar">>, 0)

listar_body(p) ==
    IF licenses[p] = <<>>
        THEN ReplyNoSave(p, "listar", <<>>, "empty", 0)
        ELSE ReplyShow(p, "listar", <<>>, "list", 0,
                       listar_shown(Variant(p), licenses[p]))

listar(p) ==
    /\ last = NoEvent
    /\ Handler(p, "listar", <<>>, "", listar_body(p))

\* vencendo: the window, in days
WindowDays == 7

\* proximas without the test of the status
proximas_all_statuses(lics, hoje) ==
    LET limite == hoje + WindowDays
        keep(lic) == /\ fromisoformat_ok(lic.expires)
                     /\ date_fromisoformat(lic.expires) <= limite
        kept == SelectSeq(lics, keep)
    IN  [j \in 1..Len(kept) |->
            [key |-> <<date_fromisoformat(kept[j].expires) - hoje, 0>>,
             item |-> kept[j]]]

\* vencendo: proximas before the sort, as [key, item] records with key (dias, 0)
proximas(lics, hoje) ==
    LET limite == hoje + WindowDays
        keep(lic) == /\ lic.status = "active"
                     /\ fromisoformat_ok(lic.expires)
                     /\ date_fromisoformat(lic.expires) <= limite
        kept == SelectSeq(lics, keep)
    IN  [j \in 1..Len(kept) |->
            [key |-> <<date_fromisoformat(kept[j].expires) - hoje, 0>>,
             item |-> kept[j]]]

vencendo_body(p) ==
    LET found == proximas(licenses[p], today)
    IN  IF found = <<>>
        THEN ReplyNoSave(p, "vencendo", <<>>, "none_expiring", 0)
        ELSE ReplyShow(p, "vencendo", <<>>, "expiring", 0, items_of(list_sort(found)))

\* /vencendo (src/telegram-bot/bot.py only)
vencendo(p) ==
    /\ last = NoEvent
    /\ Variant(p) = "tg"
    /\ Handler(p, "vencendo", <<>>, "", vencendo_body(p))

Next ==
    \/ Tick
    \/ reply_delivered
    \/ \E p \in Procs : fetch(p)
    \/ \E p \in Procs : ativar(p)
    \/ \E p \in Procs : renovar(p)
    \/ \E p \in Procs : cancelar(p)
    \/ \E p \in Procs : suspender(p)
    \/ \E p \in Procs : plano(p)
    \/ \E p \in Procs : status_cmd(p)
    \/ \E p \in Procs : listar(p)
    \/ \E p \in Procs : vencendo(p)

Spec == Init /\ [][Next]_vars

(***************************************************************************)
(* The handlers of src/bot.py alone change expires, status and key:        *)
(* renovar and cancelar are those of src/bot.py, renovar with a number of  *)
(* months of 1 or more; ativar is the same in both files, and suspender    *)
(* and plano exist in src/telegram-bot/bot.py only.                        *)
(***************************************************************************)
CanonicalRenovarArgs ==
    {args \in RenovarArgs : renovar_check(args) = "" /\ int(args[2]) >= 1}

renovar_canonical(p) ==
    /\ last = NoEvent
    /\ Variant(p) = "bot"
    /\ \E args \in CanonicalRenovarArgs :
        Handler(p, "renovar", args, renovar_check(args), renovar_body(p, args))

cancelar_canonical(p) ==
    /\ Variant(p) = "bot"
    /\ cancelar(p)

NextCanonical ==
    \/ Tick
    \/ reply_delivered
    \/ \E p \in Procs : fetch(p)
    \/ \E p \in Procs : ativar(p)
    \/ \E p \in Procs : renovar_canonical(p)
    \/ \E p \in Procs : cancelar_canonical(p)
    \/ \E p \in Procs : suspender(p)
    \/ \E p \in Procs : plano(p)

SpecCanonical == Init /\ [][NextCanonical]_vars

(***************************************************************************)
(* Properties.  `last` describes the handler step just taken: the state    *)
(* holds the store as that step left it, and last.prev, last.prevSha hold  *)
(* the store as the step found it.                                         *)
(***************************************************************************)
\* what a fetch of the store as it stands returns
FetchNow ==
    get_licenses(GITHUB_TOKEN,
                 [status |-> 200, content |-> storeContent, sha |-> storeSha])

StoreUnchanged == StoredLicenses = last.prev /\ storeSha = last.prevSha

\* the record the step found in its fetched list, and that record as stored now
Before == last.got[last.idx]
After == StoredLicenses[last.idx]

Found == last.idx # 0 /\ last.idx <= Len(last.got)
Saved == last.put = "ok" /\ Found /\ last.idx <= Len(StoredLicenses)

\* int(args[1]) of the renewal just made
Meses == int(last.args[2])

\* the date a stored `expires` text stands for
ExpiresOn(lic) == lic.expires[2]

HasRecord(cpf, lics) ==
    \E i \in 1..Len(lics) :
        normalize_cpf_cnpj(lics[i].cpf_cnpj) = normalize_cpf_cnpj(cpf)

GeneratedKeys == {generate_license_key(pick) : pick \in Picks}

\* C1: a write is accepted only if the sha the writer got from its own fetch is
\* the store's revision at the write, or the writer got no sha and no document
\* exists yet; the list the writer fetched is then the stored list it replaces.
C1_AcceptedWriteReadCurrent ==
    last.put = "ok" =>
        /\ \/ last.sha # NoneSha /\ last.sha = last.prevSha
           \/ last.sha = NoneSha /\ last.prevSha = NoneSha
        /\ last.got = last.prev

\* an accepted write while the other process holds the revision it replaces
C1_Witness ==
    /\ last.put = "ok"
    /\ last.prevSha # NoneSha
    /\ \E q \in Procs : pc[q] = "fetched" /\ sha[q] = last.prevSha

\* C2: a handler that fetched, and whose PUT reaches the store after another
\* write was accepted, gets a rejection: save_licenses returns False, the
\* store keeps the other writer's document and revision, and a fetch returns it.
C2_StaleWriteRejected ==
    (/\ last.fetched \in {"ok", "missing"}
     /\ last.put \in {"ok", "conflict"}
     /\ last.sha # last.prevSha)
        => /\ last.put = "conflict"
           /\ last.reply = "save_error"
           /\ StoreUnchanged
           /\ FetchNow = <<last.prev, last.prevSha>>

\* a stale write of a different list was rejected
C2_Witness ==
    /\ last.fetched = "ok"
    /\ last.put = "conflict"
    /\ last.sha # last.prevSha
    /\ last.sent # last.prev

\* C3: after a handler's step the stored list is the whole list the handler
\* passed to save_licenses (PUT accepted) or the list stored before the step
\* (PUT rejected, unanswered or not sent); nothing in between.
C3_WholeDocumentOrNothing ==
    last.op # "" =>
        IF last.put = "ok"
            THEN StoredLicenses = last.sent /\ storeSha # last.prevSha
            ELSE StoreUnchanged

\* cancelar of src/bot.py (three fields of one record of two) was saved
C3_Witness ==
    /\ last.op = "cancelar"
    /\ last.v = "bot"
    /\ last.put = "ok"
    /\ Len(last.sent) = 2

\* C4: no two stored records have the same normalized identifier.
C4_UniqueIdentifier ==
    \A i, j \in 1..Len(StoredLicenses) :
        i # j => normalize_cpf_cnpj(StoredLicenses[i].cpf_cnpj)
                    # normalize_cpf_cnpj(StoredLicenses[j].cpf_cnpj)

\* two processes activated the same identifier at once: the second PUT, with
\* the record appended to the list both fetched, was rejected
C4_Witness ==
    /\ last.op = "ativar"
    /\ last.put = "conflict"
    /\ last.fetched \in {"ok", "missing"}
    /\ HasRecord(last.args[1], StoredLicenses)
    /\ Len(StoredLicenses) = 2

\* C5: ativar for an identifier that has a record in the fetched list replies
\* "Ja existe licenca", sends no PUT and leaves the store as it was, whatever
\* the record's status.
C5_DuplicateActivation ==
    (/\ last.op = "ativar"
     /\ last.fetched # ""
     /\ HasRecord(last.args[1], last.got))
        => /\ last.reply = "duplicate"
           /\ last.put = "none"
           /\ StoreUnchanged

\* ativar was refused for an identifier whose record is cancelled
C5_Witness ==
    /\ last.op = "ativar"
    /\ last.reply = "duplicate"
    /\ Found
    /\ Before.status = "cancelled"

\* C6: when get_licenses fails (no answer, bad credentials, undecodable
\* content) the handler reports the store unavailable, sends no PUT and
\* leaves the store as it was.
C6_FetchFailureReported ==
    last.fetched = "failed" =>
        /\ last.reply = "unavailable"
        /\ last.put = "none"
        /\ StoreUnchanged

\* renovar of src/bot.py starts from today for this record
StartsFromZero ==
    \/ Before.status = "cancelled"
    \/ Before.key = <<>>
    \/ ExpiresOn(Before) <= last.day

RenewedByBot == last.op = "renovar" /\ last.v = "bot" /\ Saved

\* C7 as claimed: a saved renovar (src/bot.py) of a record that is cancelled,
\* has an empty key or expires today or earlier sets expires to today plus 30
\* days per month, status to active, and a key different from the prior one.
C7_ResetRenewalNewKeyDiffers ==
    (RenewedByBot /\ StartsFromZero)
        => /\ After.expires = date_isoformat(last.day + 30 * Meses)
           /\ After.status = "active"
           /\ After.key # Before.key

\* C7 as amended: ... and the key is one generate_license_key just drew: never
\* empty, different from an empty prior key, not compared with the prior key.
C7_ResetRenewal ==
    (RenewedByBot /\ StartsFromZero)
        => /\ After.expires = date_isoformat(last.day + 30 * Meses)
           /\ After.status = "active"
           /\ After.key \in GeneratedKeys
           /\ After.key # <<>>
           /\ Before.key = <<>> => After.key # Before.key
           /\ After = [Before EXCEPT !.expires = After.expires,
                                     !.status = After.status, !.key = After.key]

\* a record that expires today, with a key, was renewed and got another key
C7_Witness ==
    /\ RenewedByBot
    /\ Before.status = "active"
    /\ Before.key # <<>>
    /\ ExpiresOn(Before) = last.day
    /\ After.key # Before.key

\* C8: a saved renovar (src/bot.py) of a record that is not cancelled, has a
\* key and expires after today adds 30 days per month to its expires, sets
\* status to active and keeps the key.
C8_AccumulatingRenewal ==
    (RenewedByBot /\ ~StartsFromZero)
        => /\ After.expires = date_isoformat(ExpiresOn(Before) + 30 * Meses)
           /\ After.status = "active"
           /\ After.key = Before.key

\* a suspended record with days left was renewed
C8_Witness ==
    /\ RenewedByBot
    /\ ~StartsFromZero
    /\ Before.status = "suspended"
    /\ Meses = 1

\* C9: a saved cancelar, of either source file, leaves the record cancelled,
\* expiring today and with an empty key.
C9_CancelClearsRecord ==
    (last.op = "cancelar" /\ Saved)
        => /\ After.status = "cancelled"
           /\ After.expires = date_isoformat(last.day)
           /\ After.key = <<>>

\* C10: a saved suspender changes the record's status to suspended and nothing
\* else of it, whatever its status was; a saved renovar of a suspended record
\* leaves it active.
C10_SuspendKeepsRecord ==
    /\ (last.op = "suspender" /\ Saved)
          => After = [Before EXCEPT !.status = "suspended"]
    /\ (last.op = "renovar" /\ Saved /\ Before.status = "suspended")
          => After.status = "active"

\* a record suspended with its key and date kept was renewed
C10_Witness ==
    /\ last.op = "renovar"
    /\ Saved
    /\ Before.status = "suspended"
    /\ Before.key # <<>>
    /\ After.status = "active"

\* C11: a saved ativar appends exactly one record to the stored list: its
\* cpf_cnpj is the normalized identifier, its key one generate_license_key
\* just drew (never empty), its status active, its expires today plus 30 days
\* per month, its plan "profissional" and its max_users 3.
C11_ActivationRecord ==
    (last.op = "ativar" /\ last.put = "ok") =>
        LET n == Len(StoredLicenses)
            new == StoredLicenses[n]
        IN  /\ last.reply = "ok"
            /\ n = Len(last.prev) + 1
            /\ SubSeq(StoredLicenses, 1, n - 1) = last.prev
            /\ new.cpf_cnpj = normalize_cpf_cnpj(last.args[1])
            /\ new.cpf_cnpj = SelectSeq(new.cpf_cnpj, LAMBDA c : c \in Digits)
            /\ Len(new.cpf_cnpj) \in {11, 14}
            /\ new.key \in GeneratedKeys
            /\ new.key # <<>>
            /\ new.status = "active"
            /\ new.expires = date_isoformat(last.day + 30 * int(last.args[2]))
            /\ new.plan = "profissional"
            /\ new.max_users = 3

\* an identifier sent with dots and a dash was activated next to another record
C11_Witness ==
    /\ last.op = "ativar"
    /\ last.put = "ok"
    /\ last.args[1] = CpfFormatted
    /\ Len(last.prev) = 1
    /\ StoredLicenses[2].cpf_cnpj = CpfPlain

\* the arguments of an /ativar that the handler must refuse
InvalidAtivar(args) ==
    \/ Len(normalize_cpf_cnpj(args[1])) \notin {11, 14}
    \/ ~int_ok(args[2])
    \/ int_ok(args[2]) /\ (int(args[2]) < 1 \/ int(args[2]) > 24)

\* C12: ativar with an identifier that has neither 11 nor 14 digits or with
\* months outside 1..24, and plano with a plan that PLANOS does not have,
\* reply at once: get_licenses is not called, no PUT is sent and the store is
\* as it was.
C12_InvalidArgumentBeforeIO ==
    /\ (last.op = "ativar" /\ Len(last.args) >= 2 /\ InvalidAtivar(last.args))
          => /\ last.reply \in {"invalid_cpf", "invalid_months"}
             /\ last.fetched = ""
             /\ last.put = "none"
             /\ StoreUnchanged
    /\ (last.op = "plano" /\ Len(last.args) >= 2
          /\ str_lower(last.args[1]) \notin DOMAIN PLANOS)
          => /\ last.reply = "invalid_plan"
             /\ last.fetched = ""
             /\ last.put = "none"
             /\ StoreUnchanged

\* /ativar with 25 months was refused while the store holds records
C12_Witness ==
    /\ last.op = "ativar"
    /\ last.reply = "invalid_months"
    /\ int_ok(last.args[2])
    /\ int(last.args[2]) = 25
    /\ last.fetched = ""
    /\ Len(StoredLicenses) > 0

\* the identifier argument of the command just handled
IdArg == IF last.op = "plano" THEN last.args[2] ELSE last.args[1]

\* C13: renovar, cancelar, suspender and plano for an identifier that has no
\* record in the stored list reply "nao encontrada", send no PUT and leave the
\* store as it was.
C13_NotFound ==
    (/\ last.op \in {"renovar", "cancelar", "suspender", "plano"}
     /\ last.fetched # ""
     /\ ~HasRecord(IdArg, last.prev))
        => /\ last.reply = "not_found"
           /\ last.put = "none"
           /\ StoreUnchanged

\* /renovar for an identifier without a record, while another has one
C13_Witness ==
    /\ last.op = "renovar"
    /\ last.fetched = "ok"
    /\ last.reply = "not_found"
    /\ Len(last.got) = 1
    /\ Len(last.prev) >= 1
    /\ ~HasRecord(IdArg, last.prev)

\* the statuses a PUT that is not accepted can get: rejected (409, 422), no answer
FailedPutStatuses == {0, 409, 422}

\* what can have happened to a PUT after which the handler sends `reply`
SaveFailuresReplied(reply) ==
    {put_outcome(st) : st \in {f \in FailedPutStatuses : save_reply(f) = reply}}

\* C14: the reply to a failed operation names one category: after a PUT that
\* was not accepted, the reply is one that only a rejected PUT (Conflict) or
\* only an unanswered one (Unavailable) gets.
C14_FailuresNameCategory ==
    last.put \in {"conflict", "unavailable"}
        => SaveFailuresReplied(last.reply) = {last.put}

\* C15: every identifier in the stored list is in the stored list after any
\* step, and the list never gets shorter.
C15_RecordsNeverRemoved ==
    [][/\ Len(StoredLicenses') >= Len(StoredLicenses)
       /\ \A i \in 1..Len(StoredLicenses) :
             HasRecord(StoredLicenses[i].cpf_cnpj, StoredLicenses')]_vars

\* one of two records was cancelled and both are still stored
C15_Witness ==
    /\ last.op = "cancelar"
    /\ last.put = "ok"
    /\ Len(last.prev) = 2
    /\ Len(StoredLicenses) = 2
    /\ After.status = "cancelled"

\* C16: an accepted write leaves cpf_cnpj, customer, email and created_at of
\* every record that was stored as they were; renovar, cancelar and suspender
\* leave plan and max_users too, plano leaves expires, status and key, and
\* ativar leaves the whole record.
C16_FrameOfMutations ==
    last.put = "ok" =>
        /\ Len(StoredLicenses) >= Len(last.prev)
        /\ \A j \in 1..Len(last.prev) :
              LET b == last.prev[j]
                  a == StoredLicenses[j]
              IN  /\ a.cpf_cnpj = b.cpf_cnpj
                  /\ a.customer = b.customer
                  /\ a.email = b.email
                  /\ a.created_at = b.created_at
                  /\ DOMAIN a = DOMAIN b
                  /\ last.op \in {"renovar", "cancelar", "suspender"}
                        => a.plan = b.plan /\ a.max_users = b.max_users
                  /\ last.op = "plano"
                        => a.expires = b.expires /\ a.status = b.status /\ a.key = b.key
                  /\ (last.op = "ativar" \/ j # last.idx) => a = b

\* a renewal on a later day changed a record's expires and no other record
C16_Witness ==
    /\ last.op = "renovar"
    /\ last.v = "tg"
    /\ Saved
    /\ Len(last.prev) = 2
    /\ After.expires # Before.expires
    /\ Before.created_at # datetime_isoformat(last.day)

\* C17: status, listar and vencendo send no PUT: the stored document and its
\* revision are as they were, also when listar sorted its list.
C17_ReadOnlyHandlers ==
    last.op \in {"status", "listar", "vencendo"}
        => /\ last.put = "none"
           /\ last.sent = <<>>
           /\ StoreUnchanged
           /\ storeSha = last.prevSha

\* listar (src/telegram-bot/bot.py) showed two records in another order than
\* the stored one
C17_Witness ==
    /\ last.op = "listar"
    /\ last.v = "tg"
    /\ Len(last.shown) = 2
    /\ last.shown # last.got
    /\ last.got = StoredLicenses

\* C18: a saved plano sets the record's plan to the plan asked for and its
\* max_users to that plan's usuarios in PLANOS (basico 1, profissional 3,
\* empresarial 10), and every stored record's max_users is its plan's usuarios.
C18_PlanCatalog ==
    /\ (last.op = "plano" /\ Saved)
          => /\ After.plan = str_lower(last.args[1])
             /\ After.plan \in {"basico", "profissional", "empresarial"}
             /\ After.max_users =
                    (CASE After.plan = "basico" -> 1
                       [] After.plan = "profissional" -> 3
                       [] After.plan = "empresarial" -> 10)
    /\ \A i \in 1..Len(StoredLicenses) :
          /\ StoredLicenses[i].plan \in DOMAIN PLANOS
          /\ StoredLicenses[i].max_users = PLANOS[StoredLicenses[i].plan].usuarios

\* a record activated as profissional with 3 users was moved to empresarial
C18_Witness ==
    /\ last.op = "plano"
    /\ Saved
    /\ Before.plan = "profissional"
    /\ Before.max_users = 3
    /\ After.plan = "empresarial"
    /\ After.max_users = 10

\* the days a record has left on the day of the reply
DaysLeft(lic) == ExpiresOn(lic) - last.day

\* the records of the fetched list, and those the reply lists
GotSet == {last.got[i] : i \in 1..Len(last.got)}
ShownSet == {last.shown[j] : j \in 1..Len(last.shown)}

\* where a record is in the fetched list
GotIndex(lic) == CHOOSE i \in 1..Len(last.got) : last.got[i] = lic

ShownAscending ==
    \A j, k \in 1..Len(last.shown) :
        j < k => DaysLeft(last.shown[j]) <= DaysLeft(last.shown[k])

\* C19 as claimed: vencendo lists exactly the active records that expire today
\* or in the 7 days after it, by ascending days left; no suspended or
\* cancelled record, and no active record that expired before today.
C19_ExpiringSoonWindow ==
    last.op = "vencendo" =>
        /\ ShownSet = {lic \in GotSet : /\ lic.status = "active"
                                        /\ last.day <= ExpiresOn(lic)
                                        /\ ExpiresOn(lic) <= last.day + 7}
        /\ Len(last.shown) = Cardinality(ShownSet)
        /\ ShownAscending

\* C19 as amended: vencendo lists exactly the active records whose expires is
\* no later than today + 7, those already past it included, by ascending days
\* left and, for equal days, in the order of the fetched list.
C19_ExpiringSoonDue ==
    last.op = "vencendo" =>
        /\ ShownSet = {lic \in GotSet : /\ lic.status = "active"
                                        /\ ExpiresOn(lic) <= last.day + 7}
        /\ Len(last.shown) = Cardinality(ShownSet)
        /\ ShownAscending
        /\ \A j, k \in 1..Len(last.shown) :
              (j < k /\ DaysLeft(last.shown[j]) = DaysLeft(last.shown[k]))
                  => GotIndex(last.shown[j]) < GotIndex(last.shown[k])
        /\ last.reply = IF last.shown = <<>> THEN "none_expiring" ELSE "expiring"

\* vencendo listed two records, a lapsed one first that is stored second
C19_Witness ==
    /\ last.op = "vencendo"
    /\ Len(last.shown) = 2
    /\ DaysLeft(last.shown[1]) < 0
    /\ DaysLeft(last.shown[2]) > 0
    /\ last.shown[1] = last.got[2]

\* C20: every stored record's status is active, suspended or cancelled;
\* "expired" is never stored.
C20_StoredStatuses ==
    \A i \in 1..Len(StoredLicenses) :
        StoredLicenses[i].status \in {"active", "suspended", "cancelled"}

\* a record whose expires has passed was written again and is stored as active
C20_Witness ==
    /\ last.op = "plano"
    /\ Saved
    /\ ExpiresOn(After) < last.day
    /\ After.status = "active"

\* the process that runs the file `v`
ProcOf(v) == CHOOSE p \in Procs : Variant(p) = v

\* C21: a handler calls get_licenses once and save_licenses at most once:
\* while it runs, the list and sha it fetched are not fetched again; the step
\* that sends its PUT changes the store's revision by one if the PUT is
\* accepted and leaves the store alone otherwise, and ends the handler with
\* the reply, its fetched list gone.
C21_OneFetchOneWrite ==
    [][\A p \in Procs :
        /\ (pc[p] = "fetched" /\ pc'[p] = "fetched")
              => /\ fetched'[p] = fetched[p]
                 /\ licenses'[p] = licenses[p]
                 /\ sha'[p] = sha[p]
        /\ (last = NoEvent /\ last' # NoEvent
              /\ last'.v = Variant(p) /\ last'.fetched # "")
              => /\ pc[p] = "fetched"
                 /\ pc'[p] = "idle"
                 /\ fetched'[p] = ""
                 /\ licenses'[p] = <<>>
                 /\ storeSha' = IF last'.put = "ok" THEN storeSha + 1 ELSE storeSha
                 /\ last'.put # "ok" => storeContent' = storeContent
                 /\ last'.put \in {"conflict", "unavailable"}
                       => last'.reply = "save_error"]_vars

\* a handler's PUT was rejected and the handler has ended, while the other
\* process still holds what it fetched
C21_Witness ==
    /\ last.put = "conflict"
    /\ pc[ProcOf(last.v)] = "idle"
    /\ licenses[ProcOf(last.v)] = <<>>
    /\ \E q \in Procs : pc[q] = "fetched"

\* the rank the listing is to give a record on the day of the reply
ListRank(lic) ==
    CASE lic.status = "active" /\ ExpiresOn(lic) < last.day -> 2
      [] lic.status = "active" -> 0
      [] lic.status = "suspended" -> 1
      [] lic.status = "cancelled" -> 3
      [] OTHER -> 9

\* C22: listar (src/telegram-bot/bot.py) lists the records by rank (active 0,
\* suspended 1, active and lapsed 2, cancelled 3) and, within a rank, by
\* expires ascending.
C22_ListingOrder ==
    (last.op = "listar" /\ last.v = "tg") =>
        \A j, k \in 1..Len(last.shown) :
            j < k =>
                \/ ListRank(last.shown[j]) < ListRank(last.shown[k])
                \/ /\ ListRank(last.shown[j]) = ListRank(last.shown[k])
                   /\ ExpiresOn(last.shown[j]) <= ExpiresOn(last.shown[k])

\* the alphabet the keys are drawn from
Alphabet == {chars[i] : i \in 1..Len(chars)}

\* draws of every symbol of chars, alone and mixed
ManyPicks ==
    {[i \in 1..16 |-> k] : k \in 1..Len(chars)}
        \cup {[i \in 1..16 |-> i], [i \in 1..16 |-> Len(chars) + 1 - i]}

\* four groups of four symbols of the alphabet, joined by hyphens
KeyShape(key) ==
    /\ Len(key) = 19
    /\ \A i \in 1..19 :
          IF i \in {5, 10, 15} THEN key[i] = "-" ELSE key[i] \in Alphabet

\* the key of the record the step just taken wrote a new key into, if any
KeyWritten ==
    IF last.op = "ativar" /\ last.put = "ok"
        THEN {StoredLicenses[Len(StoredLicenses)].key}
    ELSE IF last.op = "renovar" /\ Saved /\ After.key # Before.key
        THEN {After.key}
    ELSE {}

\* C23 as claimed: a generated key has 19 characters, four groups of four
\* symbols joined by hyphens, the symbols from an alphabet of exactly 32
\* distinct symbols without 0, 1, I and O.
C23_KeyAlphabet32 ==
    KeyWritten # {} =>
        /\ \A key \in KeyWritten : KeyShape(key)
        /\ \A pick \in ManyPicks : KeyShape(generate_license_key(pick))
        /\ Cardinality(Alphabet) = 32
        /\ Len(chars) = Cardinality(Alphabet)
        /\ Alphabet \cap {"0", "1", "I", "O"} = {}

\* C23 as amended: ... the symbols from an alphabet of exactly 31 distinct
\* symbols without 0, 1, I, L and O.
C23_KeyAlphabet ==
    KeyWritten # {} =>
        /\ \A key \in KeyWritten : KeyShape(key)
        /\ \A pick \in ManyPicks : KeyShape(generate_license_key(pick))
        /\ Cardinality(Alphabet) = 31
        /\ Len(chars) = Cardinality(Alphabet)
        /\ Alphabet \cap {"0", "1", "I", "L", "O"} = {}

\* a renewal wrote a key of the last symbol of chars over one of the first
C23_Witness ==
    /\ last.op = "renovar"
    /\ Saved
    /\ Before.key = generate_license_key([i \in 1..16 |-> 1])
    /\ After.key = generate_license_key([i \in 1..16 |-> Len(chars)])
    /\ After.key[19] = "9"

\* the PUT process q would send now, with what it fetched
PutOf(q) == save_body(licenses[q], handler_sha(q), <<"m">>, today)

\* C24: of the writes of handlers that fetched the same revision, at most one
\* is accepted: once one was, the store rejects the PUT of every handler
\* still holding that revision, and a rejected PUT leaves the stored document
\* and its revision as they were.
C24_OneWriterPerRevision ==
    /\ last.put = "ok"
          => /\ storeSha # last.sha
             /\ \A q \in Procs :
                   (pc[q] = "fetched" /\ fetched[q] \in {"ok", "missing"}
                        /\ sha[q] = last.sha)
                       => StorePutStatus(PutOf(q)) \in {409, 422}
    /\ last.put = "conflict"
          => /\ StoreUnchanged
             /\ last.reply = "save_error"

\* the second of two handlers that fetched the same revision was rejected
C24_Witness ==
    /\ last.put = "conflict"
    /\ last.fetched = "ok"
    /\ last.sha # NoneSha
    /\ last.prevSha = last.sha + 1
    /\ last.sent # last.prev

\* C25: every stored record with status active has a non-empty key.
C25_ActiveHasKey ==
    \A i \in 1..Len(StoredLicenses) :
        StoredLicenses[i].status = "active" => StoredLicenses[i].key # <<>>

\* C26: every stored record that is cancelled or has an empty key has an
\* expires no later than today, and every cancelled record has an empty key.
C26_CancelledIsSpent ==
    \A i \in 1..Len(StoredLicenses) :
        /\ (StoredLicenses[i].status = "cancelled" \/ StoredLicenses[i].key = <<>>)
              => ExpiresOn(StoredLicenses[i]) <= today
        /\ StoredLicenses[i].status = "cancelled" => StoredLicenses[i].key = <<>>

\* C27: after a saved renovar the record's expires is later than today and no
\* earlier than it was before the renewal.
C27_RenewalExtends ==
    (last.op = "renovar" /\ Saved)
        => /\ ExpiresOn(After) > last.day
           /\ ExpiresOn(After) >= ExpiresOn(Before)

\* C28: a saved renovar, cancelar, suspender or plano stores the fetched list
\* with every record but the one it found unchanged and in its place; a saved
\* ativar stores the fetched list followed by the one new record.
C28_OthersWrittenBack ==
    last.put = "ok" =>
        IF last.op = "ativar"
            THEN /\ Len(StoredLicenses) = Len(last.got) + 1
                 /\ SubSeq(StoredLicenses, 1, Len(last.got)) = last.got
                 /\ normalize_cpf_cnpj(StoredLicenses[Len(StoredLicenses)].cpf_cnpj)
                        = normalize_cpf_cnpj(last.args[1])
            ELSE /\ Found
                 /\ Len(StoredLicenses) = Len(last.got)
                 /\ \A j \in 1..Len(last.got) :
                       j # last.idx => StoredLicenses[j] = last.got[j]
                 /\ normalize_cpf_cnpj(After.cpf_cnpj) = normalize_cpf_cnpj(IdArg)

\* the first of two stored records was changed and the second written back
C28_Witness ==
    /\ last.op \in {"renovar", "cancelar", "suspender", "plano"}
    /\ Saved
    /\ Len(last.got) = 2
    /\ last.idx = 1
    /\ After # Before
    /\ StoredLicenses[2] = last.got[2]

\* the numbers of months the two renewals are compared for
CanonicalMonths == {1, 2}

\* C29: in every state reached by ativar, renovar of src/bot.py with 1 month
\* or more, cancelar of src/bot.py, suspender and plano, renovar of src/bot.py
\* and renovar of src/telegram-bot/bot.py would give every stored record the
\* same expires (and status); the records they give differ in the key alone.
C29_RenewalPoliciesAgree ==
    \A i \in 1..Len(StoredLicenses) :
        \A meses \in CanonicalMonths :
            \A key \in GeneratedKeys :
                LET lic == StoredLicenses[i]
                    canonical == renovar_bot(lic, meses, key, today)
                    alternative == renovar_tg(lic, meses, today)
                IN  /\ canonical.expires = alternative.expires
                    /\ [canonical EXCEPT !.key = lic.key] = alternative

\* renovar of src/bot.py renewed a cancelled record days after its cancelar,
\* from today and with a new key, to the date the other renovar would give
C29_Witness ==
    /\ last.op = "renovar"
    /\ Saved
    /\ Before.status = "cancelled"
    /\ Before.key = <<>>
    /\ ExpiresOn(Before) < last.day
    /\ After.key # <<>>
    /\ After.expires = renovar_tg(Before, Meses, last.day).expires
    /\ renovar_tg(Before, Meses, last.day).key = <<>>

====
